---- MODULE Spec2Model ----
(***************************************************************************)
(* Model of clang-tidy's readability VisibleExceptionPropagationCheck.     *)
(*                                                                         *)
(* The check registers four AST matchers (decl-bad-mark, decl-missing-mark,*)
(* stmt-bad-mark, stmt-missing-mark); the match finder walks the AST of a  *)
(* translation unit, tries every matcher on every node and hands each      *)
(* match to check(), which emits one diagnostic at the node.               *)
(*                                                                         *)
(* State: the AST under analysis (immutable input), the nodes the walk has *)
(* still to visit, and the diagnostics emitted so far.  A node is named by *)
(* its path from the root (the sequence of child indices).                 *)
(***************************************************************************)
EXTENDS Naturals, Sequences, FiniteSets

VARIABLES tree, todo, diags

vars == <<tree, todo, diags>>

(***************************************************************************)
(* Bounds of the input ASTs.                                               *)
(***************************************************************************)
\* nesting depth of calls / operators inside one expression
MaxArgDepth == 1
\* number of statements in the body block of the function
MaxBlock == 2

(***************************************************************************)
(* AST nodes.                                                              *)
(***************************************************************************)
MaybeUnhandled == "MaybeUnhandled"
Likely == "Likely"

DeclKinds == {"FunctionDecl", "VarDecl"}
ExprKinds == {"CallExpr", "CXXConstructExpr", "DeclRefExpr", "UnaryOperator",
              "CXXThrowExpr"}
StmtKinds == ExprKinds \cup
             {"CompoundStmt", "DeclStmt", "AttributedStmt", "IfStmt", "ForStmt",
              "WhileStmt", "DoStmt", "SwitchStmt", "CaseStmt", "DefaultStmt",
              "ReturnStmt", "NullStmt"}

\* The callee of a call or construct expression, with the facts the front end
\* attaches to it: a resolved FunctionDecl or not, its exception
\* specification (isNoThrow) and its language linkage (isExternC).
CalleeFacts ==
  [ Throwing       |-> [resolved |-> TRUE,  noThrow |-> FALSE, externC |-> FALSE],
    NoThrow        |-> [resolved |-> TRUE,  noThrow |-> TRUE,  externC |-> FALSE],
    ExternC        |-> [resolved |-> TRUE,  noThrow |-> FALSE, externC |-> TRUE],
    Unresolved     |-> [resolved |-> FALSE, noThrow |-> FALSE, externC |-> FALSE],
    NotACall       |-> [resolved |-> FALSE, noThrow |-> FALSE, externC |-> FALSE] ]

FunctionCallees == {"Throwing", "NoThrow", "ExternC", "Unresolved"}
ConstructorCallees == {"Throwing", "NoThrow"}

Mk(k, a, c, ks) == [kind |-> k, attrs |-> a, callee |-> c, kids |-> ks]

\* an absent child (the empty init / condition / increment of a for statement)
Absent == Mk("None", {}, "NotACall", <<>>)

DeclRef == Mk("DeclRefExpr", {}, "NotACall", <<>>)
Call(c, args) == Mk("CallExpr", {}, c, args)
Construct(c, args) == Mk("CXXConstructExpr", {}, c, args)
Unary(e) == Mk("UnaryOperator", {}, "NotACall", <<e>>)
Throw(ks) == Mk("CXXThrowExpr", {}, "NotACall", ks)
Return(ks) == Mk("ReturnStmt", {}, "NotACall", ks)
NullStmt == Mk("NullStmt", {}, "NotACall", <<>>)
Compound(ks) == Mk("CompoundStmt", {}, "NotACall", ks)
Attributed(a, s) == Mk("AttributedStmt", a, "NotACall", <<s>>)
VarDecl(a, ks) == Mk("VarDecl", a, "NotACall", ks)
DeclStmt(d) == Mk("DeclStmt", {}, "NotACall", <<d>>)
\* children in clang's order: if/while/switch (cond, body), do (body, cond),
\* for (init, cond, inc, body), case (lhs, sub), default (sub)
IfStmt(c, b) == Mk("IfStmt", {}, "NotACall", <<c, b>>)
WhileStmt(c, b) == Mk("WhileStmt", {}, "NotACall", <<c, b>>)
SwitchStmt(c, b) == Mk("SwitchStmt", {}, "NotACall", <<c, b>>)
DoStmt(b, c) == Mk("DoStmt", {}, "NotACall", <<b, c>>)
ForStmt(i, c, n, b) == Mk("ForStmt", {}, "NotACall", <<i, c, n, b>>)
CaseStmt(l, s) == Mk("CaseStmt", {}, "NotACall", <<l, s>>)
DefaultStmt(s) == Mk("DefaultStmt", {}, "NotACall", <<s>>)
FunctionDecl(a, body) == Mk("FunctionDecl", a, "NotACall", <<body>>)

(***************************************************************************)
(* The bounded set of input ASTs: one function definition whose body is    *)
(* drawn from three families.                                              *)
(*   - simple statements with expressions of every shape up to MaxArgDepth,*)
(*     bare or under an attribute;                                         *)
(*   - blocks of up to MaxBlock simple statements;                         *)
(*   - one control statement, bare or under an attribute, with its         *)
(*     controlling expressions and its body varied; the body may be        *)
(*     unbraced, braced, marked, under a case or default label, or itself  *)
(*     a control statement.                                                *)
(***************************************************************************)
LeafExprs ==
  {DeclRef} \cup {Call(c, <<>>) : c \in FunctionCallees}
            \cup {Construct(c, <<>>) : c \in ConstructorCallees}

RECURSIVE Exprs(_)
Exprs(d) ==
  IF d = 0 THEN LeafExprs
  ELSE LeafExprs \cup {Call(c, <<e>>) : c \in FunctionCallees, e \in Exprs(d - 1)}
                 \cup {Unary(e) : e \in Exprs(d - 1)}

Marks == {{}, {MaybeUnhandled}}
StmtAttrs == {{MaybeUnhandled}, {Likely}}

DeclStmts(es) ==
  {DeclStmt(VarDecl(a, <<>>)) : a \in Marks}
  \cup {DeclStmt(VarDecl(a, <<e>>)) : a \in Marks, e \in es}

\* statements an attribute can be written on
PlainStmts(es) ==
  es \cup {Return(<<>>), Throw(<<>>), NullStmt, Compound(<<>>)}
     \cup {Return(<<e>>) : e \in es}
     \cup {Throw(<<e>>) : e \in es \cap {Construct(c, <<>>) : c \in ConstructorCallees}}

SimpleStmts(es) ==
  PlainStmts(es) \cup DeclStmts(es)
  \cup {Attributed(a, s) : a \in StmtAttrs, s \in PlainStmts(es)}

\* the few expressions used where a whole family is varied around them
FewExprs ==
  {DeclRef, Call("Throwing", <<>>), Call("NoThrow", <<>>),
   Unary(Call("Throwing", <<>>))}

FewStmts ==
  {Call("Throwing", <<>>), Call("NoThrow", <<>>),
   Return(<<Call("Throwing", <<>>)>>),
   Throw(<<Construct("Throwing", <<>>)>>),
   DeclStmt(VarDecl({}, <<Call("Throwing", <<>>)>>)),
   Attributed({MaybeUnhandled}, Call("Throwing", <<>>))}

RECURSIVE SeqsUpTo(_, _)
SeqsUpTo(S, n) ==
  IF n = 0 THEN {<<>>}
  ELSE SeqsUpTo(S, n - 1) \cup
       {Append(q, s) : q \in {r \in SeqsUpTo(S, n - 1) : Len(r) = n - 1}, s \in S}

BlockBodies == {Compound(q) : q \in SeqsUpTo(FewStmts, MaxBlock)}

\* bodies of control statements: unbraced, braced, and marked
InnerStmts ==
  {Call("Throwing", <<>>), Call("NoThrow", <<>>),
   Return(<<Call("Throwing", <<>>)>>),
   IfStmt(Call("Throwing", <<>>), NullStmt),
   WhileStmt(DeclRef, Call("Throwing", <<>>))}
MarkedOrNot(S) == S \cup {Attributed({MaybeUnhandled}, s) : s \in S}
Braced == {Compound(<<>>)} \cup {Compound(<<s>>) : s \in MarkedOrNot(InnerStmts)}
CtlBodies == {NullStmt} \cup MarkedOrNot(InnerStmts) \cup MarkedOrNot(Braced)

SwitchBodies ==
  {Compound(<<CaseStmt(DeclRef, s)>>) : s \in MarkedOrNot(InnerStmts)}
  \cup {Compound(<<DefaultStmt(s)>>) : s \in MarkedOrNot(InnerStmts)}

ForInits ==
  {Absent} \cup FewExprs
  \cup DeclStmts({Call("Throwing", <<>>), Call("NoThrow", <<>>)})
ForParts == {Absent, DeclRef, Call("Throwing", <<>>)}
ForBodies == {NullStmt, Compound(<<>>), Compound(<<Call("Throwing", <<>>)>>)}

CtlStmts ==
  {IfStmt(c, b) : c \in FewExprs, b \in CtlBodies}
  \cup {WhileStmt(c, b) : c \in FewExprs, b \in CtlBodies}
  \cup {DoStmt(b, c) : c \in FewExprs, b \in CtlBodies}
  \cup {SwitchStmt(c, b) : c \in FewExprs, b \in CtlBodies \cup SwitchBodies}
  \cup {ForStmt(i, c, n, b) : i \in ForInits, c \in ForParts, n \in ForParts,
                              b \in ForBodies}

CtlFamily == CtlStmts \cup {Attributed(a, s) : a \in StmtAttrs, s \in CtlStmts}

FunctionBodies ==
  {Compound(<<s>>) : s \in SimpleStmts(Exprs(MaxArgDepth))}
  \cup BlockBodies
  \cup {Compound(<<s>>) : s \in CtlFamily}

Trees == {FunctionDecl(a, b) : a \in Marks, b \in FunctionBodies}

(***************************************************************************)
(* Navigation: nodes are paths from the root.                              *)
(***************************************************************************)
RECURSIVE At(_, _)
At(t, p) == IF p = <<>> THEN t ELSE At(t.kids[Head(p)], Tail(p))

Present(t) == t.kind # "None"

RECURSIVE Paths(_)
Paths(t) ==
  {<<>>} \cup UNION {{<<i>> \o q : q \in Paths(t.kids[i])} :
                     i \in {j \in DOMAIN t.kids : Present(t.kids[j])}}

\* the walk's order: a node before its children, children left to right
RECURSIVE PreOrder(_, _)
RECURSIVE PreOrderKids(_, _, _)
PreOrder(t, p) == <<p>> \o PreOrderKids(t, p, 1)
PreOrderKids(t, p, i) ==
  IF i > Len(t.kids) THEN <<>>
  ELSE (IF Present(t.kids[i]) THEN PreOrder(t.kids[i], Append(p, i)) ELSE <<>>)
       \o PreOrderKids(t, p, i + 1)

Node(p) == At(tree, p)
Nodes == Paths(tree)
IsDecl(p) == Node(p).kind \in DeclKinds
IsStmt(p) == Node(p).kind \in StmtKinds
IsExpr(p) == Node(p).kind \in ExprKinds
HasParent(p) == p # <<>>
Parent(p) == SubSeq(p, 1, Len(p) - 1)
Descendants(p) == {p \o q : q \in Paths(Node(p)) \ {<<>>}}
\* child i of p, when the node has one there
HasChild(p, i) == i \in DOMAIN Node(p).kids /\ Present(Node(p).kids[i])
Child(p, i) == Append(p, i)

(***************************************************************************)
(* The matchers of the check.                                              *)
(***************************************************************************)
\* AST_MATCHER_P(AttributedStmt, hasStmtAttr, ...): some attribute of the
\* attributed statement has the given kind
hasStmtAttr(p, k) == \E a \in Node(p).attrs : a = k

\* hasAttr on a declaration
hasAttr(p, k) == k \in Node(p).attrs

\* as hasThrowingFunctionDecl, with the isExternC() alternative left out
hasThrowingFunctionDecl_NoExternC(p) ==
  LET f == CalleeFacts[Node(p).callee]
  IN  f.resolved /\ ~f.noThrow

\* hasDeclaration(functionDecl(unless(anyOf(isNoThrow(), isExternC()))))
hasThrowingFunctionDecl(p) ==
  LET f == CalleeFacts[Node(p).callee]
  IN  f.resolved /\ ~(f.noThrow \/ f.externC)

throwingExpr(p) ==
  /\ IsExpr(p)
  /\ \/ Node(p).kind = "CXXConstructExpr" /\ hasThrowingFunctionDecl(p)
     \/ Node(p).kind = "CallExpr" /\ hasThrowingFunctionDecl(p)

throwingExprSelfOrDescendant(p) ==
  /\ IsExpr(p)
  /\ \/ throwingExpr(p)
     \/ \E q \in Descendants(p) : throwingExpr(q)

markedDecl(p) == IsDecl(p) /\ hasAttr(p, MaybeUnhandled)

markedStmt(p) ==
  /\ IsStmt(p)
  /\ HasParent(p)
  /\ Node(Parent(p)).kind = "AttributedStmt"
  /\ hasStmtAttr(Parent(p), MaybeUnhandled)

throwingDecl(p) ==
  /\ Node(p).kind = "VarDecl"
  /\ \E q \in Descendants(p) : throwingExpr(q)

\* hasCondition / hasLoopInit / hasIncrement: the child the inner matcher is
\* tried on, if the node has it (as a set of at most one node).  The condition
\* is the first child of an if / while / switch, the second of a do statement
\* (after the body) and of a for statement (after the init).
CondIndex(k) == IF k \in {"DoStmt", "ForStmt"} THEN 2 ELSE 1
hasCondition(p) ==
  IF HasChild(p, CondIndex(Node(p).kind))
  THEN {Child(p, CondIndex(Node(p).kind))} ELSE {}
hasLoopInit(p) == IF HasChild(p, 1) THEN {Child(p, 1)} ELSE {}
hasIncrement(p) == IF HasChild(p, 3) THEN {Child(p, 3)} ELSE {}

\* as throwingIfStmt, with hasDescendant over the whole if statement in place
\* of hasCondition
throwingIfStmt_WholeStmt(p) ==
  Node(p).kind = "IfStmt" /\ \E q \in Descendants(p) : throwingExpr(q)

throwingIfStmt(p) ==
  Node(p).kind = "IfStmt" /\ (\E c \in hasCondition(p) : throwingExprSelfOrDescendant(c))

throwingForStmt(p) ==
  /\ Node(p).kind = "ForStmt"
  /\ \/ (\E c \in hasLoopInit(p) : throwingExprSelfOrDescendant(c))
     \/ (\E c \in hasCondition(p) : throwingExprSelfOrDescendant(c))
     \/ (\E c \in hasIncrement(p) : throwingExprSelfOrDescendant(c))

throwingWhileStmt(p) ==
  Node(p).kind = "WhileStmt" /\ (\E c \in hasCondition(p) : throwingExprSelfOrDescendant(c))

throwingSwitchStmt(p) ==
  Node(p).kind = "SwitchStmt" /\ (\E c \in hasCondition(p) : throwingExprSelfOrDescendant(c))

throwingDoStmt(p) ==
  Node(p).kind = "DoStmt" /\ (\E c \in hasCondition(p) : throwingExprSelfOrDescendant(c))

throwingRegularStmt(p) ==
  /\ Node(p).kind \notin {"IfStmt", "ForStmt", "WhileStmt", "SwitchStmt", "DoStmt"}
  /\ throwingExprSelfOrDescendant(p)

\* as throwingStmt, with the anyOf(hasParent(...)) restriction left out
throwingStmt_AnyParent(p) ==
  /\ IsStmt(p)
  /\ Node(p).kind # "DeclStmt"
  /\ Node(p).kind # "CompoundStmt"
  /\ Node(p).kind # "CXXThrowExpr"
  /\ Node(p).kind # "AttributedStmt"
  /\ \/ throwingIfStmt(p)
     \/ throwingForStmt(p)
     \/ throwingWhileStmt(p)
     \/ throwingSwitchStmt(p)
     \/ throwingDoStmt(p)
     \/ throwingRegularStmt(p)

throwingStmt(p) ==
  /\ IsStmt(p)
  /\ Node(p).kind # "DeclStmt"
  /\ Node(p).kind # "CompoundStmt"
  /\ Node(p).kind # "CXXThrowExpr"
  /\ Node(p).kind # "AttributedStmt"
  /\ HasParent(p)
  /\ Node(Parent(p)).kind \in {"CompoundStmt", "AttributedStmt", "CaseStmt"}
  /\ \/ throwingIfStmt(p)
     \/ throwingForStmt(p)
     \/ throwingWhileStmt(p)
     \/ throwingSwitchStmt(p)
     \/ throwingDoStmt(p)
     \/ throwingRegularStmt(p)

(***************************************************************************)
(* registerMatchers: the four rules, each bound to its own name.           *)
(***************************************************************************)
DeclBadMark(p) == IsDecl(p) /\ markedDecl(p) /\ ~throwingDecl(p)

DeclMissingMark(p) == IsDecl(p) /\ ~markedDecl(p) /\ throwingDecl(p)

StmtBadMark(p) == IsStmt(p) /\ markedStmt(p) /\ ~throwingStmt(p)

\* as StmtMissingMark, with the matcher of stmt-bad-mark pasted unchanged
StmtMissingMark_PastedBadMark(p) == IsStmt(p) /\ markedStmt(p) /\ ~throwingStmt(p)

StmtMissingMark(p) == IsStmt(p) /\ ~markedStmt(p) /\ throwingStmt(p)

(***************************************************************************)
(* check: one diagnostic per match, at the matched node.                   *)
(***************************************************************************)
BadMarkMessage == "Cannot implicitly throw, remove '[[clang::maybe_unhandled]]'"
MissingMarkMessage == "May implicitly throw, add '[[clang::maybe_unhandled]]'"

check(p, bound) ==
  IF bound = "decl-bad-mark" THEN <<[node |-> p, msg |-> BadMarkMessage]>>
  ELSE IF bound = "decl-missing-mark" THEN <<[node |-> p, msg |-> MissingMarkMessage]>>
  ELSE IF bound = "stmt-bad-mark" THEN <<[node |-> p, msg |-> BadMarkMessage]>>
  ELSE IF bound = "stmt-missing-mark" THEN <<[node |-> p, msg |-> MissingMarkMessage]>>
  ELSE <<>>

\* the callbacks one node triggers, in the order the matchers were registered
MatchDecl(p) ==
  (IF DeclBadMark(p) THEN check(p, "decl-bad-mark") ELSE <<>>)
  \o (IF DeclMissingMark(p) THEN check(p, "decl-missing-mark") ELSE <<>>)

MatchStmt(p) ==
  (IF StmtBadMark(p) THEN check(p, "stmt-bad-mark") ELSE <<>>)
  \o (IF StmtMissingMark(p) THEN check(p, "stmt-missing-mark") ELSE <<>>)

(***************************************************************************)
(* The analysis pass.                                                      *)
(***************************************************************************)
Init ==
  /\ tree \in Trees
  /\ todo = PreOrder(tree, <<>>)
  /\ diags = <<>>

\* the walk reaches a declaration: the two declaration rules are tried on it
TraverseDecl ==
  /\ todo # <<>>
  /\ IsDecl(Head(todo))
  /\ diags' = diags \o MatchDecl(Head(todo))
  /\ todo' = Tail(todo)
  /\ UNCHANGED tree

\* the walk reaches a statement: the two statement rules are tried on it
TraverseStmt ==
  /\ todo # <<>>
  /\ IsStmt(Head(todo))
  /\ diags' = diags \o MatchStmt(Head(todo))
  /\ todo' = Tail(todo)
  /\ UNCHANGED tree

Next == TraverseDecl \/ TraverseStmt

Spec == Init /\ [][Next]_vars

Done == todo = <<>>

TypeOK ==
  /\ tree \in Trees
  /\ \A i \in DOMAIN todo : todo[i] \in Nodes
  /\ \A i \in DOMAIN diags : diags[i].node \in Nodes

(***************************************************************************)
(* Vocabulary of the properties, stated on the AST and on the emitted      *)
(* diagnostics only (not through the matchers above).                      *)
(***************************************************************************)
DiagsAt(p) == {i \in DOMAIN diags : diags[i].node = p}
MissingMark(p) == \E i \in DiagsAt(p) : diags[i].msg = MissingMarkMessage
BadMark(p) == \E i \in DiagsAt(p) : diags[i].msg = BadMarkMessage
Silent(p) == DiagsAt(p) = {}

KindOf(p) == Node(p).kind
ParentKind(p) == IF p = <<>> THEN "None" ELSE Node(Parent(p)).kind
ControlKinds == {"IfStmt", "ForStmt", "WhileStmt", "DoStmt", "SwitchStmt"}

\* a call or construction whose callee is resolved, not non-throwing and
\* not extern-linkage
InvokesThrowing(p) ==
  /\ KindOf(p) \in {"CallExpr", "CXXConstructExpr"}
  /\ CalleeFacts[Node(p).callee].resolved
  /\ ~CalleeFacts[Node(p).callee].noThrow
  /\ ~CalleeFacts[Node(p).callee].externC
ContainsThrowing(p) ==
  InvokesThrowing(p) \/ \E q \in Descendants(p) : InvokesThrowing(q)
ContainsThrowingBelow(p) == \E q \in Descendants(p) : InvokesThrowing(q)

\* the annotation is attached at the node's own position
AnnotatedDecl(p) == IsDecl(p) /\ MaybeUnhandled \in Node(p).attrs
AnnotatedStmt(p) ==
  /\ IsStmt(p)
  /\ ParentKind(p) = "AttributedStmt"
  /\ MaybeUnhandled \in Node(Parent(p)).attrs
Annotated(p) == AnnotatedDecl(p) \/ AnnotatedStmt(p)

\* the body of a control statement, and its controlling parts
BodyIndex(k) == IF k = "DoStmt" THEN 1 ELSE IF k = "ForStmt" THEN 4 ELSE 2
BodyOf(p) == Child(p, BodyIndex(KindOf(p)))
ControlParts(p) ==
  {Child(p, i) : i \in {j \in DOMAIN Node(p).kids :
                          j # BodyIndex(KindOf(p)) /\ HasChild(p, j)}}
\* a control statement's own throw-potential, counting every controlling part
ControlCanPropagateAnyPart(p) == \E c \in ControlParts(p) : ContainsThrowing(c)
\* the same, counting only the controlling parts that are expressions
ControlCanPropagate(p) ==
  \E c \in ControlParts(p) : IsExpr(c) /\ ContainsThrowing(c)

\* positions a statement (as opposed to a sub-expression) can stand in
IsBodyOfControl(p) ==
  /\ ParentKind(p) \in ControlKinds
  /\ p = BodyOf(Parent(p))
StatementPosition(p) ==
  \/ ParentKind(p) \in {"CompoundStmt", "AttributedStmt", "DefaultStmt"}
  \/ ParentKind(p) = "CaseStmt" /\ p = Child(Parent(p), 2)
  \/ IsBodyOfControl(p)

\* the statement, seen through an attribute written on it
Unwrapped(p) == IF KindOf(p) = "AttributedStmt" THEN Child(p, 1) ELSE p

\* coverage by a marked body block: a direct child of a marked block that is
\* the body of a marked control statement
CoveredByMarkedBody(p) ==
  /\ ParentKind(p) = "CompoundStmt"
  /\ AnnotatedStmt(Parent(p))
  /\ IsBodyOfControl(Parent(Parent(p)))
  /\ AnnotatedStmt(Parent(Parent(Parent(p))))

CanPropagateStmt(p) ==
  IF KindOf(p) \in ControlKinds THEN ControlCanPropagate(p) ELSE ContainsThrowing(p)

(***************************************************************************)
(* Properties.                                                             *)
(***************************************************************************)

\* C1: for every declaration of any kind, after the pass: missing-mark is
\* emitted iff some descendant expression invokes a throwing callable and the
\* declaration is not annotated; bad-mark is emitted iff it is annotated and
\* no descendant expression invokes a throwing callable.
C1_EveryDeclarationFollowsTheLaw ==
  Done =>
    \A p \in Nodes :
      IsDecl(p) =>
        /\ MissingMark(p) <=> (ContainsThrowingBelow(p) /\ ~AnnotatedDecl(p))
        /\ BadMark(p) <=> (AnnotatedDecl(p) /\ ~ContainsThrowingBelow(p))

\* C2: for every statement in a statement position (in a block, under an
\* attribute, as the unbraced body of a control statement, under a case or
\* default label) that is not covered, not a block and not a throw statement,
\* after the pass: missing-mark iff it can propagate and is not annotated,
\* bad-mark iff it is annotated and cannot propagate.
C2_EveryStatementFollowsTheLaw ==
  Done =>
    \A p \in Nodes :
      ( /\ IsStmt(p)
        /\ StatementPosition(p)
        /\ KindOf(p) \notin {"CompoundStmt", "CXXThrowExpr", "DeclStmt",
                             "AttributedStmt", "CaseStmt", "DefaultStmt",
                             "NullStmt"}
        /\ ~CoveredByMarkedBody(p) )
      =>
        /\ MissingMark(p) <=> (CanPropagateStmt(p) /\ ~AnnotatedStmt(p))
        /\ BadMark(p) <=> (AnnotatedStmt(p) /\ ~CanPropagateStmt(p))

\* C3: at every moment of the pass every node has at most one diagnostic.
C3_AtMostOneDiagnosticPerNode ==
  \A p \in Nodes : Cardinality(DiagsAt(p)) <= 1

\* a finished pass that reported a declaration and a statement, once each
C3_Witness ==
  /\ Done
  /\ \E p \in Nodes, q \in Nodes :
       /\ IsDecl(p) /\ Cardinality(DiagsAt(p)) = 1
       /\ IsStmt(q) /\ Cardinality(DiagsAt(q)) = 1
       /\ AnnotatedStmt(q)

\* C4: for an annotated control statement whose condition invokes a throwing
\* callable and whose body (braced or unbraced) holds an unannotated statement
\* that invokes a throwing callable, after the pass: nothing is reported for
\* the control statement or its condition, and exactly one missing-mark is
\* reported for the body statement.
C4_MarkCoversConditionNotBody ==
  Done =>
    \A p \in Nodes :
      ( /\ KindOf(p) \in ControlKinds
        /\ AnnotatedStmt(p)
        /\ HasChild(p, CondIndex(KindOf(p)))
        /\ ContainsThrowing(Child(p, CondIndex(KindOf(p)))) )
      =>
        /\ Silent(p)
        /\ Silent(Child(p, CondIndex(KindOf(p))))
        /\ \A b \in {BodyOf(p)} \cup {Child(BodyOf(p), i) : i \in DOMAIN Node(BodyOf(p)).kids} :
             ( /\ KindOf(b) \notin {"CompoundStmt", "AttributedStmt", "CXXThrowExpr"}
               /\ ParentKind(b) \in ControlKinds \cup {"CompoundStmt"}
               /\ CanPropagateStmt(b) )
             => (MissingMark(b) /\ Cardinality(DiagsAt(b)) = 1)

\* C5 (as amended): a control statement's own throw-potential is that of its
\* controlling expressions: the condition, and for a for statement also the
\* increment and the init when the init is an expression.  After the pass an
\* annotated control statement gets bad-mark iff no controlling expression
\* invokes a throwing callable, and never missing-mark; an unannotated one
\* never gets bad-mark, and gets missing-mark iff a controlling expression
\* invokes a throwing callable and it stands in a block, under an attribute or
\* under a case label.  Throwing calls in the body, or in a declaration that
\* is the init of a for statement, do not count.
C5_ControlStatementOwnPotential ==
  Done =>
    \A p \in Nodes :
      KindOf(p) \in ControlKinds =>
        /\ AnnotatedStmt(p) =>
             /\ BadMark(p) <=> ~ControlCanPropagate(p)
             /\ ~MissingMark(p)
        /\ ~AnnotatedStmt(p) =>
             /\ ~BadMark(p)
             /\ MissingMark(p) <=>
                  /\ ControlCanPropagate(p)
                  /\ ParentKind(p) \in {"CompoundStmt", "AttributedStmt", "CaseStmt"}

\* an annotated for statement whose only throwing call is in its body was
\* reported bad-mark
C5_Witness ==
  /\ Done
  /\ \E p \in Nodes :
       /\ KindOf(p) = "ForStmt"
       /\ AnnotatedStmt(p)
       /\ ~ControlCanPropagateAnyPart(p)
       /\ ContainsThrowing(BodyOf(p))
       /\ BadMark(p)

\* C5 (as claimed): the same law, with the init of a for statement counted
\* whatever it is, a declaration included.
C5_AsClaimed ==
  Done =>
    \A p \in Nodes :
      KindOf(p) \in ControlKinds =>
        /\ AnnotatedStmt(p) =>
             /\ BadMark(p) <=> ~ControlCanPropagateAnyPart(p)
             /\ ~MissingMark(p)
        /\ ~AnnotatedStmt(p) =>
             /\ ~BadMark(p)
             /\ MissingMark(p) <=>
                  /\ ControlCanPropagateAnyPart(p)
                  /\ ParentKind(p) \in {"CompoundStmt", "AttributedStmt", "CaseStmt"}

\* C6: a call or construction is classified as throwing iff its callee is
\* resolved, not non-throwing and not extern-linkage: after the pass, a bare
\* call statement in a block with no call among its arguments is reported
\* missing-mark iff its callee is such; and a statement or declaration all of
\* whose calls are to non-throwing, extern-linkage or unresolved callees is
\* never reported missing-mark, and is reported bad-mark if annotated.
C6_ExternAndUnresolvedAreNonThrowing ==
  Done =>
    \A p \in Nodes :
      /\ ( /\ KindOf(p) \in {"CallExpr", "CXXConstructExpr"}
           /\ ParentKind(p) = "CompoundStmt"
           /\ ~ContainsThrowingBelow(p) )
         => ( MissingMark(p) <=>
                /\ CalleeFacts[Node(p).callee].resolved
                /\ ~CalleeFacts[Node(p).callee].noThrow
                /\ ~CalleeFacts[Node(p).callee].externC )
      /\ ( \A q \in {p} \cup Descendants(p) :
             KindOf(q) \in {"CallExpr", "CXXConstructExpr"} =>
               \/ ~CalleeFacts[Node(q).callee].resolved
               \/ CalleeFacts[Node(q).callee].noThrow
               \/ CalleeFacts[Node(q).callee].externC )
         => ( ~MissingMark(p) /\ (Annotated(p) => BadMark(p)) )

\* an annotated statement calling an extern-linkage callee without exception
\* specification, and one calling an unresolved callee, were reported bad-mark
C6_Witness ==
  /\ Done
  /\ \E p \in Nodes :
       /\ KindOf(p) = "CallExpr"
       /\ Node(p).callee \in {"ExternC", "Unresolved"}
       /\ AnnotatedStmt(p)
       /\ BadMark(p)

\* C7: nothing is ever reported for a throw statement, annotated or not, nor
\* for the thrown-value expression inside it.
C7_ThrowStatementIsExempt ==
  \A p \in Nodes :
    KindOf(p) = "CXXThrowExpr" =>
      /\ Silent(p)
      /\ \A q \in Descendants(p) : Silent(q)

\* C8: nothing is ever reported for a block, annotated or not.
C8_BlockIsNeverReported ==
  \A p \in Nodes : KindOf(p) = "CompoundStmt" => Silent(p)

\* C9: nothing is ever reported for a direct child of an annotated block that
\* is the body of an annotated control statement.
C9_MarkedBodyCoversItsChildren ==
  \A p \in Nodes : CoveredByMarkedBody(p) => Silent(p)

\* C10: every missing-mark on a statement is on a child of a block, of an
\* attributed statement or of a case label, and every bad-mark on a statement
\* is on the child of an attributed statement that carries the annotation; so
\* a call that is the argument of another call is never reported.
C10_OnlyAttributablePositionsAreReported ==
  \A i \in DOMAIN diags :
    IsStmt(diags[i].node) =>
      /\ diags[i].msg = MissingMarkMessage =>
           ParentKind(diags[i].node) \in {"CompoundStmt", "AttributedStmt", "CaseStmt"}
      /\ diags[i].msg = BadMarkMessage =>
           /\ ParentKind(diags[i].node) = "AttributedStmt"
           /\ MaybeUnhandled \in Node(Parent(diags[i].node)).attrs

\* a throwing call with a throwing call as its argument, standing in a block:
\* the outer call was reported missing-mark and the inner one was not reported
C10_Witness ==
  /\ Done
  /\ \E p \in Nodes :
       /\ KindOf(p) = "CallExpr" /\ InvokesThrowing(p)
       /\ ParentKind(p) = "CompoundStmt"
       /\ HasChild(p, 1)
       /\ KindOf(Child(p, 1)) = "CallExpr" /\ InvokesThrowing(Child(p, 1))
       /\ MissingMark(p)
       /\ Silent(Child(p, 1))

====
